---- MODULE Spec2Model ----
(***************************************************************************)
(* A model of the Lions Flute audio engine (src/audio_processor.py) and of *)
(* the callers that invoke it.                                             *)
(*                                                                         *)
(* Representation.                                                         *)
(*  - A file name or path is a sequence of tokens.  The tokens "/" and "." *)
(*    are the path separator and the dot; every other token is a run of    *)
(*    ordinary characters.  ".." is the two tokens ".", ".".               *)
(*  - The file system maps a resolved path (a sequence of components, each *)
(*    a sequence of tokens) to the content of the file stored there.       *)
(*  - Samples and real-valued parameters are fixed-point integers in units *)
(*    of 1/Scale.  An intensity is given in tenths of a percent, so that   *)
(*    49.6 % is 496.                                                       *)
(*  - The task dispatcher of src/app.py has one worker thread per task; the *)
(*    thread of task t makes its engine calls as caller t.                 *)
(*  - A decoded buffer carries, besides its channels, the frequency hz of  *)
(*    the tone it holds: the spectral steps (masking, band filters) are    *)
(*    modelled for single-tone signals, for which they reduce to a gain.   *)
(***************************************************************************)
EXTENDS Integers, Sequences, FiniteSets, TLC

VARIABLES fs, pc, call, loc, res, written, log, ncalls, tasks, tpc, clock, resp

\* The state of the engine's callers and of the file system.
enginevars == <<fs, pc, call, loc, res, written, log, ncalls>>

\* The state of the task dispatcher (src/app.py).
appvars == <<tasks, tpc, clock, resp>>

vars == <<fs, pc, call, loc, res, written, log, ncalls, tasks, tpc, clock, resp>>

(***************************************************************************)
(* Bounds of the model.                                                    *)
(***************************************************************************)
\* Engine calls each caller makes.
MaxCalls == 2

(***************************************************************************)
(* Arithmetic helpers.                                                     *)
(***************************************************************************)
\* Fixed-point unit: 1.0 is Scale.
Scale == 100 * 100

Abs(x) == IF x < 0 THEN -x ELSE x

\* Python's int(): the quotient n/d truncated toward zero (d > 0).
Trunc(n, d) == IF n >= 0 THEN n \div d ELSE -((-n) \div d)

\* Nearest-integer rounding of n/d (d > 0), halves away from zero.
RoundDiv(n, d) == IF n >= 0 THEN (2 * n + d) \div (2 * d) ELSE -((2 * (-n) + d) \div (2 * d))

\* The value numpy yields for 0/0.
NaN == 0 - 2147483647

SeqMax(s) == IF s = <<>> THEN 0 ELSE CHOOSE m \in {s[i] : i \in 1..Len(s)} : \A i \in 1..Len(s) : s[i] <= m

Range(s) == {s[i] : i \in 1..Len(s)}

(***************************************************************************)
(* Paths: os.path.join, os.path.splitext and the resolution of a path by   *)
(* the operating system.                                                   *)
(***************************************************************************)
\* Index of the last occurrence of token t in p, 0 when there is none (str.rfind).
RFind(p, t) == IF \E i \in 1..Len(p) : p[i] = t THEN CHOOSE i \in 1..Len(p) : p[i] = t /\ \A j \in (i+1)..Len(p) : p[j] # t ELSE 0

\* os.path.join(a, b): an absolute b discards a.
PathJoin(a, b) == IF b # <<>> /\ b[1] = "/" THEN b ELSE a \o <<"/">> \o b

\* os.path.splitext(p)[0]: cut at the last dot of the last component, unless
\* that component consists of leading dots up to it.
SplitextRoot(p) ==
    LET sepIndex == RFind(p, "/")
        dotIndex == RFind(p, ".")
    IN IF dotIndex > sepIndex /\ (\E k \in (sepIndex+1)..(dotIndex-1) : p[k] # ".")
       THEN SubSeq(p, 1, dotIndex - 1)
       ELSE p

\* os.path.splitext(p)[1]
SplitextExt(p) == SubSeq(p, Len(SplitextRoot(p)) + 1, Len(p))

\* The components of a path: the runs of tokens between separators.
RECURSIVE Components(_)
Components(p) ==
    IF p = <<>> THEN <<>>
    ELSE LET k == IF \E i \in 1..Len(p) : p[i] = "/" THEN CHOOSE i \in 1..Len(p) : p[i] = "/" /\ \A j \in 1..(i-1) : p[j] # "/" ELSE Len(p) + 1
             head == SubSeq(p, 1, k - 1)
             rest == Components(SubSeq(p, k + 1, Len(p)))
         IN IF head = <<>> THEN rest ELSE <<head>> \o rest

\* The working directory of the process, and the directories that exist.
Cwd == << <<"app">> >>

upload_folder == <<"uploads">>

processed_folder == PathJoin(upload_folder, <<"processed">>)

UploadDir == Cwd \o << <<"uploads">> >>

ProcessedDir == UploadDir \o << <<"processed">> >>

Dirs == {<<>>, Cwd, UploadDir, ProcessedDir}

NoEnt == << <<"ENOENT">> >>

\* Walk the components from directory cur; NoEnt when a directory on the way
\* does not exist.
RECURSIVE Walk(_, _)
Walk(comps, cur) ==
    IF comps = <<>> THEN cur
    ELSE IF cur \notin Dirs THEN NoEnt
    ELSE IF Head(comps) = <<".">> THEN Walk(Tail(comps), cur)
    ELSE IF Head(comps) = <<".", ".">> THEN Walk(Tail(comps), IF cur = <<>> THEN cur ELSE SubSeq(cur, 1, Len(cur) - 1))
    ELSE Walk(Tail(comps), Append(cur, Head(comps)))

\* The file a path names: absolute paths start at the root, others at Cwd.
Resolve(p) == Walk(Components(p), IF p # <<>> /\ p[1] = "/" THEN <<>> ELSE Cwd)

\* The directory holding a resolved file path.
Parent(rp) == IF rp = <<>> THEN <<>> ELSE SubSeq(rp, 1, Len(rp) - 1)

\* os.path.exists
Exists(files, p) == Resolve(p) \in DOMAIN files \/ Resolve(p) \in Dirs

(***************************************************************************)
(* File contents, decoding and encoding.                                   *)
(***************************************************************************)
\* A stored audio file: interleaved frames, one sample per channel in each.
AudioFile(sr, frames, hz) == [kind |-> "audio", sr |-> sr, frames |-> frames, hz |-> hz, bitrate |-> 0]

\* A file that exists but holds no decodable audio.
GarbageFile == [kind |-> "garbage", sr |-> 0, frames |-> <<>>, hz |-> 0, bitrate |-> 0]

NoBuffer == [shape |-> 0, ch |-> <<>>, hz |-> 0]

\* The number of samples of each channel.
BufLen(buf) == IF buf.ch = <<>> THEN 0 ELSE Len(buf.ch[1])

\* librosa.load(filepath, sr=None, mono=False): a one-channel file gives a
\* 1-D array, any other a (channels, samples) array.
Decode(file) ==
    LET nch == IF file.frames = <<>> THEN 1 ELSE Len(file.frames[1])
    IN [shape |-> IF nch = 1 THEN 1 ELSE 2,
        ch |-> [c \in 1..nch |-> [i \in 1..Len(file.frames) |-> file.frames[i][c]]],
        hz |-> file.hz]

\* The sample as the 16-bit writer stores it: clipped to full scale.
Clip(x) == IF x = NaN THEN NaN ELSE IF x > Scale THEN Scale ELSE IF x < -Scale THEN -Scale ELSE x

\* sf.write(output_path, audio_data or audio_data.T, sample_rate)
Encode(buf, sr) == AudioFile(sr, [i \in 1..BufLen(buf) |-> [c \in 1..Len(buf.ch) |-> Clip(buf.ch[c][i])]], buf.hz)

\* Apply F to every channel (the mono and the stereo branch of each transform
\* do the same per channel).
MapCh(F(_), buf) == [buf EXCEPT !.ch = [c \in 1..Len(buf.ch) |-> F(buf.ch[c])]]

\* audio_data * (1 - wet_level) + processed * wet_level
MixSample(dry, processed, wet_level) == Trunc(dry * (Scale - wet_level) + processed * wet_level, Scale)

Mix(dry, processed, wet_level) == [i \in 1..Len(dry) |-> MixSample(dry[i], processed[i], wet_level)]

MixBuf(audio, processed, wet_level) == [audio EXCEPT !.ch = [c \in 1..Len(audio.ch) |-> Mix(audio.ch[c], processed.ch[c], wet_level)]]

Ok(buf) == [ok |-> TRUE, buf |-> buf, err |-> "none"]

Raise(err) == [ok |-> FALSE, buf |-> NoBuffer, err |-> err]

(***************************************************************************)
(* The effect library.                                                     *)
(***************************************************************************)
\* apply_reverb.  noise stands for the unseeded random impulse response: the
\* convolution with it is modelled as the dry signal scaled by noise.
\* np.random.normal rejects a negative size and np.max an empty impulse.
apply_reverb(audio_data, sample_rate, room_size, damping, wet_level, noise) ==
    LET reverb_samples == Trunc(room_size * 2 * sample_rate, Scale)
        reverb_audio == MapCh(LAMBDA x : [i \in 1..Len(x) |-> Trunc(x[i] * noise, Scale)], audio_data)
    IN IF reverb_samples <= 0 THEN Raise("ValueError")
       ELSE Ok(MixBuf(audio_data, reverb_audio, wet_level))

\* Mutant: the scaled copy is added from the start of the buffer.
EchoTempFromStart(x, delay_samples, decay, n) ==
    (IF n <= Len(x) THEN x[n] ELSE 0) + (IF n <= Len(x) THEN Trunc(x[n] * decay, Scale) ELSE 0)

\* The length of the temporary buffer of the echo: np.zeros(len(x) + delay_samples).
EchoTempLen(x, delay_samples) == Len(x) + delay_samples

\* Place n (from 1) of the temporary buffer: the input copied to its start,
\* and the input scaled by decay added from index delay_samples on.
EchoTemp(x, delay_samples, decay, n) ==
    (IF n <= Len(x) THEN x[n] ELSE 0) + (IF n > delay_samples THEN Trunc(x[n - delay_samples] * decay, Scale) ELSE 0)

\* The echo of one channel: the temporary buffer cut to the input's length.
EchoChannel(x, delay_samples, decay) ==
    [n \in 1..(IF EchoTempLen(x, delay_samples) < Len(x) THEN EchoTempLen(x, delay_samples) ELSE Len(x)) |->
        EchoTemp(x, delay_samples, decay, n)]

\* apply_echo.  A negative delay makes the temporary buffer shorter than the
\* input, and the copy into it fails.
apply_echo(audio_data, sample_rate, delay, decay, wet_level) ==
    LET delay_samples == Trunc(delay * sample_rate, Scale)
        echo_audio == MapCh(LAMBDA x : EchoChannel(x, delay_samples, decay), audio_data)
    IN IF delay_samples < 0 /\ BufLen(audio_data) > 0 THEN Raise("ValueError")
       ELSE Ok(MixBuf(audio_data, echo_audio, wet_level))

\* np.sin of an angle of cd hundredths of a degree (0 <= cd < 36000), in
\* units of 1/Scale: Bhaskara's approximation 4 d (180 - d) / (40500 - d (180 - d)).
Sin(cd) ==
    LET d == IF cd < 18000 THEN cd ELSE cd - 18000
        m == d * (18000 - d)
    IN (IF cd < 18000 THEN 1 ELSE -1) * ((4 * m) \div ((405000000 - m) \div Scale))

\* The oscillator is kept in units of 1/LfoUnit samples.
LfoUnit == 100 * Scale

\* lfo[i] = sin(2 pi rate i / sample_rate) * depth * sample_rate, for the
\* sample index i (from 0).
Lfo(i, sample_rate, rate, depth) ==
    Sin(((rate * i * 36) \div (10 * sample_rate)) % 36000) * Trunc(depth * sample_rate, 100)

\* Mutant: the oscillator value rounded to the nearest integer.
LfoRound(i, sample_rate, rate, depth) == RoundDiv(Lfo(i, sample_rate, rate, depth), LfoUnit)

\* int(delay_mod)
LfoInt(i, sample_rate, rate, depth) == Trunc(Lfo(i, sample_rate, rate, depth), LfoUnit)

\* The chorus of one channel: chorus_audio[i] = audio_data[max(0, i - int(lfo[i]))]
\* when that index is inside the channel, else 0.
ChorusChannel(x, sample_rate, rate, depth) ==
    [n \in 1..Len(x) |->
        LET i == n - 1
            k == i - LfoInt(i, sample_rate, rate, depth)
            delay_idx == IF k > 0 THEN k ELSE 0
        IN IF delay_idx < Len(x) THEN x[delay_idx + 1] ELSE 0]

apply_chorus(audio_data, sample_rate, rate, depth, wet_level) ==
    Ok(MixBuf(audio_data, MapCh(LAMBDA x : ChorusChannel(x, sample_rate, rate, depth), audio_data), wet_level))

\* tanh on fixed-point values, by linear interpolation between tabulated points.
TanhTable == << <<0, 0>>, <<2500, 2449>>, <<5000, 4621>>, <<10000, 7616>>, <<15000, 9051>>, <<20000, 9640>>, <<30000, 9951>>, <<50000, 9999>> >>

TanhPos(x) ==
    IF x >= TanhTable[Len(TanhTable)][1] THEN TanhTable[Len(TanhTable)][2]
    ELSE LET k == CHOOSE j \in 1..(Len(TanhTable) - 1) : TanhTable[j][1] <= x /\ x < TanhTable[j + 1][1]
             a == TanhTable[k]
             b == TanhTable[k + 1]
         IN a[2] + ((x - a[1]) * (b[2] - a[2])) \div (b[1] - a[1])

Tanh(x) == IF x >= 0 THEN TanhPos(x) ELSE -TanhPos(-x)

\* apply_distortion
apply_distortion(audio_data, gain, wet_level) ==
    LET distorted == MapCh(LAMBDA x : [i \in 1..Len(x) |-> Tanh(Trunc(x[i] * gain, Scale))], audio_data)
    IN Ok(MixBuf(audio_data, distorted, wet_level))

\* The compressed sample: above the threshold in magnitude it becomes
\* threshold + (sample - threshold) / ratio.
CompressSample(x, threshold, ratio) ==
    IF Abs(x) > threshold THEN threshold + Trunc((x - threshold) * Scale, ratio) ELSE x

\* apply_compressor
apply_compressor(audio_data, threshold, ratio, wet_level) ==
    LET compressed == MapCh(LAMBDA x : [i \in 1..Len(x) |-> CompressSample(x[i], threshold, ratio)], audio_data)
    IN Ok(MixBuf(audio_data, compressed, wet_level))

\* Band edges of the equalizer and of the vocal band, in Hz.
low_freq == 300

high_freq == 3000

\* The gain the three band filters give a tone of hz Hz.
BandGain(hz, low_gain, mid_gain, high_gain) ==
    IF hz < low_freq THEN low_gain ELSE IF hz <= high_freq THEN mid_gain ELSE high_gain

\* apply_equalizer.  signal.butter rejects a cutoff that is not strictly
\* between 0 and the Nyquist frequency.
apply_equalizer(audio_data, sample_rate, low_gain, mid_gain, high_gain, wet_level) ==
    LET g == BandGain(audio_data.hz, low_gain, mid_gain, high_gain)
        eq_audio == MapCh(LAMBDA x : [i \in 1..Len(x) |-> Trunc(x[i] * g, Scale)], audio_data)
    IN IF 2 * high_freq >= sample_rate THEN Raise("ValueError")
       ELSE Ok(MixBuf(audio_data, eq_audio, wet_level))

(***************************************************************************)
(* The effect dispatcher.                                                  *)
(***************************************************************************)
\* Intensities are given in tenths of a percent.
IntensityUnit == 2 * 5

\* Product of two fixed-point values.
FMul(a, b) == Trunc(a * b, Scale)

\* str.lower() on the tokens used as effect names.
Lower(t) ==
    CASE t = "Reverb" -> "reverb"
      [] t = "ECHO" -> "echo"
      [] t = "Delay" -> "delay"
      [] t = "CHORUS" -> "chorus"
      [] t = "Distortion" -> "distortion"
      [] t = "COMPRESSOR" -> "compressor"
      [] t = "EqualiZer" -> "equalizer"
      [] t = "FLANGER" -> "flanger"
      [] OTHER -> t

\* intensity / 100.0
intensity_normalized(intensity) == (intensity * Scale) \div (100 * IntensityUnit)

\* Defaults of the transforms' keyword parameters.
reverb_damping == 5000

echo_decay == 5000

chorus_depth == 20

compressor_ratio == 40000

NoParams == [fn |-> "none"]

\* The branches of apply_effect: for a lower-cased name and a normalized
\* intensity i, the transform called and the keyword arguments passed (a
\* parameter that is not passed takes the transform's default); NoParams for
\* a name that matches no branch.
DispatchKnown(name, i) ==
    CASE name = "reverb" ->
           [fn |-> "apply_reverb", room_size |-> i, damping |-> reverb_damping, wet_level |-> FMul(i, 5000)]
      [] name = "echo" ->
           [fn |-> "apply_echo", delay |-> 2000 + FMul(i, 5000), decay |-> echo_decay, wet_level |-> FMul(i, 6000)]
      [] name = "chorus" ->
           [fn |-> "apply_chorus", rate |-> 10000 + FMul(i, 20000), depth |-> chorus_depth, wet_level |-> FMul(i, 7000)]
      [] name = "distortion" ->
           [fn |-> "apply_distortion", gain |-> 10000 + FMul(i, 40000), wet_level |-> i]
      [] name = "compressor" ->
           [fn |-> "apply_compressor", threshold |-> 8000 - FMul(i, 5000), ratio |-> compressor_ratio, wet_level |-> i]
      [] name = "equalizer" ->
           [fn |-> "apply_equalizer", low_gain |-> 5000 + i, mid_gain |-> 10000 + FMul(i - 5000, 5000),
            high_gain |-> 7000 + FMul(i, 6000), wet_level |-> i]
      [] name = "delay" ->
           [fn |-> "apply_echo", delay |-> 5000 + FMul(i, 10000), decay |-> 3000 + FMul(i, 4000), wet_level |-> FMul(i, 5000)]
      [] OTHER -> NoParams

\* Mutant: a name that matches no branch is processed as an echo.
DispatchFallsThrough(effect_name, intensity) ==
    LET p == DispatchKnown(Lower(effect_name), intensity_normalized(intensity))
    IN IF p = NoParams THEN DispatchKnown("echo", intensity_normalized(intensity)) ELSE p

\* Mutant: the delay effect runs with the echo effect's parameters.
DispatchDelayAsEcho(effect_name, intensity) ==
    DispatchKnown(IF Lower(effect_name) = "delay" THEN "echo" ELSE Lower(effect_name), intensity_normalized(intensity))

\* The dispatch of apply_effect for effect_name at intensity.
Dispatch(effect_name, intensity) == DispatchKnown(Lower(effect_name), intensity_normalized(intensity))

\* The call of the chosen transform.
RunTransform(p, audio_data, sample_rate, noise) ==
    CASE p.fn = "apply_reverb" -> apply_reverb(audio_data, sample_rate, p.room_size, p.damping, p.wet_level, noise)
      [] p.fn = "apply_echo" -> apply_echo(audio_data, sample_rate, p.delay, p.decay, p.wet_level)
      [] p.fn = "apply_chorus" -> apply_chorus(audio_data, sample_rate, p.rate, p.depth, p.wet_level)
      [] p.fn = "apply_distortion" -> apply_distortion(audio_data, p.gain, p.wet_level)
      [] p.fn = "apply_compressor" -> apply_compressor(audio_data, p.threshold, p.ratio, p.wet_level)
      [] p.fn = "apply_equalizer" -> apply_equalizer(audio_data, sample_rate, p.low_gain, p.mid_gain, p.high_gain, p.wet_level)
      [] OTHER -> Raise("ValueError: Unknown effect")

\* Mutant: the suffix is the intensity rounded to the nearest integer.
EffectOutputNameRounded(filename, effect_name, intensity) ==
    SplitextRoot(filename) \o <<"_", effect_name, "_", ToString(RoundDiv(intensity, IntensityUnit)), ".", "wav">>

\* f"{base_name}_{effect_name}_{int(intensity)}.wav"
EffectOutputName(filename, effect_name, intensity) ==
    SplitextRoot(filename) \o <<"_", effect_name, "_", ToString(Trunc(intensity, IntensityUnit)), ".", "wav">>

(***************************************************************************)
(* Sample I/O.                                                             *)
(***************************************************************************)
\* Mutant: no existence check, a missing file is left to the decoder.
load_audio_unchecked(files, filename) ==
    LET rp == Resolve(PathJoin(upload_folder, filename))
    IN IF rp \in DOMAIN files /\ files[rp].kind = "audio"
       THEN [ok |-> TRUE, buf |-> Decode(files[rp]), sr |-> files[rp].sr, err |-> "none"]
       ELSE [ok |-> FALSE, buf |-> NoBuffer, sr |-> 0, err |-> "DecodeError"]

\* load_audio: the existence check, then the decoder.
load_audio(files, filename) ==
    LET filepath == PathJoin(upload_folder, filename)
        rp == Resolve(filepath)
    IN IF ~Exists(files, filepath) THEN [ok |-> FALSE, buf |-> NoBuffer, sr |-> 0, err |-> "FileNotFoundError"]
       ELSE IF rp \in DOMAIN files /\ files[rp].kind = "audio"
            THEN [ok |-> TRUE, buf |-> Decode(files[rp]), sr |-> files[rp].sr, err |-> "none"]
            ELSE [ok |-> FALSE, buf |-> NoBuffer, sr |-> 0, err |-> "DecodeError"]

\* The outcomes of writing a file: it is written, or the write fails.
WriteOutcomes == {"ok", "error"}

\* Whether a file can be opened for writing at resolved path rp.
Writable(rp) == rp # NoEnt /\ rp # <<>> /\ rp \notin Dirs /\ Parent(rp) \in Dirs

\* A write of content at path under outcome o: the files afterwards, whether
\* it succeeded, and the paths it touched.
WriteFile(files, path, content, o) ==
    LET rp == Resolve(path)
    IN IF ~Writable(rp) \/ o = "error" THEN [files |-> files, ok |-> FALSE, touched |-> {}]
       ELSE [files |-> (rp :> content) @@ files, ok |-> TRUE, touched |-> {rp}]

\* save_audio
save_audio(files, audio_data, sample_rate, output_filename, o) ==
    WriteFile(files, PathJoin(processed_folder, output_filename), Encode(audio_data, sample_rate), o)

(***************************************************************************)
(* The spectral separator, for a buffer holding a tone of hz Hz.           *)
(***************************************************************************)
n_fft == 2048

\* magnitude.shape[0]
freq_bins == 1 + n_fft \div 2

\* Mutant: the lower boundary rounded to the nearest bin.
vocal_freq_start_rounded(sample_rate) == RoundDiv(300 * freq_bins * 2, sample_rate)

\* int(300 * freq_bins / (sample_rate / 2))
vocal_freq_start(sample_rate) == Trunc(300 * freq_bins * 2, sample_rate)

\* int(3000 * freq_bins / (sample_rate / 2))
vocal_freq_end(sample_rate) == Trunc(3000 * freq_bins * 2, sample_rate)

\* The multipliers of bin i: <<vocal_mask, instrumental_mask>>.
MaskAt(i, sample_rate) ==
    IF vocal_freq_start(sample_rate) <= i /\ i <= vocal_freq_end(sample_rate)
    THEN <<15000, 3000>>
    ELSE <<4000, 12000>>

\* The bin of the transform that holds a tone of hz Hz.
ToneBin(hz, sample_rate) ==
    LET k == RoundDiv(hz * n_fft, sample_rate)
    IN IF k > freq_bins - 1 THEN freq_bins - 1 ELSE k

\* np.mean(audio_data, axis=0) for a multi-channel buffer, else the buffer.
Downmix(audio_data) ==
    IF audio_data.shape > 1
    THEN [i \in 1..BufLen(audio_data) |->
            LET RECURSIVE Sum(_)
                Sum(c) == IF c = 0 THEN 0 ELSE audio_data.ch[c][i] + Sum(c - 1)
            IN Trunc(Sum(Len(audio_data.ch)), Len(audio_data.ch))]
    ELSE audio_data.ch[1]

\* x / np.max(np.abs(x)) * 0.8: with a maximum of 0 every sample is 0/0.
Normalize(x) ==
    LET m == SeqMax([i \in 1..Len(x) |-> Abs(x[i])])
    IN [i \in 1..Len(x) |-> IF m = 0 THEN NaN ELSE Trunc(x[i] * 8000, m)]

\* Lines 76-121 of split_vocals_instruments: the two stems, normalized.
\* np.max rejects an empty array.
Separate(audio_data, sample_rate) ==
    LET audio_mono == Downmix(audio_data)
        mask == MaskAt(ToneBin(audio_data.hz, sample_rate), sample_rate)
        vocals == [i \in 1..Len(audio_mono) |-> FMul(audio_mono[i], mask[1])]
        instruments == [i \in 1..Len(audio_mono) |-> FMul(audio_mono[i], mask[2])]
    IN IF Len(audio_mono) = 0 THEN [ok |-> FALSE, vocals |-> NoBuffer, instruments |-> NoBuffer, err |-> "ValueError"]
       ELSE [ok |-> TRUE,
             vocals |-> [shape |-> 1, ch |-> <<Normalize(vocals)>>, hz |-> audio_data.hz],
             instruments |-> [shape |-> 1, ch |-> <<Normalize(instruments)>>, hz |-> audio_data.hz],
             err |-> "none"]

(***************************************************************************)
(* The bridge to the delivery codec.                                       *)
(***************************************************************************)
\* bitrate_map.get(quality, '192k'), in kbps
Bitrate(quality) ==
    CASE quality = "low" -> 128
      [] quality = "medium" -> 192
      [] quality = "high" -> 320
      [] OTHER -> 192

\* os.path.splitext(wav_filename)[0] + '.mp3'
Mp3Name(wav_filename) == SplitextRoot(wav_filename) \o <<".", "mp3">>

\* AudioSegment.from_wav(wav_path): fails on a missing file, and on one that
\* holds no wav data (garbage, or the output of an earlier export).
ReadWav(files, wav_filename) ==
    LET rp == Resolve(PathJoin(processed_folder, wav_filename))
    IN IF rp \notin DOMAIN files THEN [ok |-> FALSE, file |-> GarbageFile, err |-> "FileNotFoundError"]
       ELSE IF files[rp].kind # "audio" \/ files[rp].bitrate # 0
            THEN [ok |-> FALSE, file |-> GarbageFile, err |-> "CouldntDecodeError"]
       ELSE [ok |-> TRUE, file |-> files[rp], err |-> "none"]

\* audio.export(mp3_path, format='mp3', bitrate=bitrate)
ExportMp3(files, audio, wav_filename, quality, o) ==
    WriteFile(files, PathJoin(processed_folder, Mp3Name(wav_filename)), [audio EXCEPT !.bitrate = Bitrate(quality)], o)

(***************************************************************************)
(* The inputs the callers draw from, and the files present at the start.   *)
(***************************************************************************)
Filenames ==
    { <<"a", ".", "wav">>, <<"a", ".", "mp3">>, <<"quiet", ".", "wav">>, <<"bad", ".", "wav">>,
      <<"missing", ".", "wav">>, <<"/", "app", "/", "uploads", "/", "a", ".", "wav">>, <<"anti", ".", "wav">> }

\* The source files apply_effect is called on.
EffectFilenames == { <<"a", ".", "wav">>, <<"a", ".", "mp3">>, <<"bad", ".", "wav">>, <<"missing", ".", "wav">> }

EffectNames == {"reverb", "echo", "chorus", "distortion", "compressor", "equalizer", "delay", "Reverb", "flanger"}

\* -50 %, 0 %, 49.6 %, 50 %, 100 %, 150 %
Intensities == {-500, 0, 496, 500, 1000, 1500}

Qualities == {"low", "medium", "high", "omitted", "best"}

\* The gains standing for the reverb's random impulse response.
NoiseGains == {-Scale, Scale \div 2}

InitialFiles ==
    (Append(UploadDir, <<"a", ".", "wav">>) :> AudioFile(44100, << <<3000>>, <<-9000>> >>, 440))
    @@ (Append(UploadDir, <<"a", ".", "mp3">>) :> AudioFile(44100, << <<3000, 1000>>, <<-9000, 5000>> >>, 5000))
    @@ (Append(UploadDir, <<"quiet", ".", "wav">>) :> AudioFile(44100, << <<0>>, <<0>> >>, 0))
    @@ (Append(UploadDir, <<"bad", ".", "wav">>) :> GarbageFile)
    @@ (Append(UploadDir, <<"anti", ".", "wav">>) :> AudioFile(48000, << <<5000, -5000>>, <<-2000, 2000>> >>, 1000))

\* The names of the files stored in directory dir.
FilesIn(files, dir) == {rp \in DOMAIN files : Parent(rp) = dir}

(***************************************************************************)
(* State.                                                                  *)
(*   fs       the file system                                              *)
(*   pc       each caller's position in the engine call it is running      *)
(*   call     the operation and arguments of the caller's current call     *)
(*   loc      the local variables of that call                             *)
(*   res      how the caller's last finished call ended                    *)
(*   written  the paths the caller's current or last call wrote to         *)
(*   log      the steps the caller's current or last call has run          *)
(*   ncalls   the number of calls the caller has finished                  *)
(*   tasks    processing_tasks, the task store of the dispatcher           *)
(*   tpc      the position of each task's worker thread                    *)
(*   clock    time.time(), in units of TickSeconds                         *)
(*   resp     the response to the last task status request                 *)
(***************************************************************************)
NoCall == [op |-> "none", filename |-> <<>>, effect_name |-> "", intensity |-> 0, quality |-> ""]

NoLoc == [audio_data |-> NoBuffer, sample_rate |-> 0, params |-> NoParams, processed |-> NoBuffer,
          instruments |-> NoBuffer, audio |-> GarbageFile, target |-> <<>>]

NoInfo == [duration |-> 0, sample_rate |-> 0, channels |-> 0, format |-> <<>>]

NoRes == [status |-> "none", err |-> "none", files |-> <<>>, data |-> NoBuffer, info |-> NoInfo]

Returned(files) == [NoRes EXCEPT !.status = "returned", !.files = files]

Raised(err) == [NoRes EXCEPT !.status = "raised", !.err = err]

\* An entry of processing_tasks; present is FALSE for an id that is not a key
\* of the dictionary, has_result and has_error tell whether the entry has the
\* keys 'result' and 'error'.
NoTask == [present |-> FALSE, status |-> "", progress |-> 0, filename |-> <<>>, type |-> "", effect |-> "",
           intensity |-> 0, created_at |-> 0, has_result |-> FALSE, result |-> <<>>, has_error |-> FALSE, error |-> ""]

\* The response of the last request to /task/<task_id>.
NoResp == [code |-> 0, task_id |-> 0, status |-> "", progress |-> 0, has_result |-> FALSE, result |-> <<>>, error |-> ""]

\* A worker thread: its position, the arguments it was started with, the
\* names its engine calls returned, the exception it caught, and how each of
\* its engine calls ended.
NoThread == [at |-> "none", type |-> "", filename |-> <<>>, effect_name |-> "", intensity |-> 0,
             wavs |-> <<>>, mp3s |-> <<>>, err |-> "", ended |-> <<>>]

Callers == DOMAIN pc

InitOf(callers) ==
    /\ tasks = [w \in callers |-> NoTask]
    /\ tpc = [w \in callers |-> NoThread]
    /\ clock = 0
    /\ resp = NoResp
    /\ fs = InitialFiles
    /\ pc = [w \in callers |-> "idle"]
    /\ call = [w \in callers |-> NoCall]
    /\ loc = [w \in callers |-> NoLoc]
    /\ res = [w \in callers |-> NoRes]
    /\ written = [w \in callers |-> {}]
    /\ log = [w \in callers |-> <<>>]
    /\ ncalls = [w \in callers |-> 0]

Init == InitOf({1})

\* The caller starts a call: its record of the previous one is cleared.
Begin(w, c, l, steps) ==
    /\ call' = [call EXCEPT ![w] = c]
    /\ loc' = [loc EXCEPT ![w] = l]
    /\ written' = [written EXCEPT ![w] = {}]
    /\ log' = [log EXCEPT ![w] = steps]

\* The caller's call ends with r.
Finish(w, r) ==
    /\ pc' = [pc EXCEPT ![w] = "idle"]
    /\ res' = [res EXCEPT ![w] = r]
    /\ ncalls' = [ncalls EXCEPT ![w] = @ + 1]

\* The call goes on to step next.
Goto(w, next) ==
    /\ pc' = [pc EXCEPT ![w] = next]
    /\ res' = [res EXCEPT ![w] = NoRes]
    /\ UNCHANGED ncalls

CanCall(w) == pc[w] = "idle" /\ ncalls[w] < MaxCalls

(***************************************************************************)
(* load_audio and get_audio_info: read-only, one step each.                *)
(***************************************************************************)
LoadAudio(w) ==
    /\ CanCall(w)
    /\ \E filename \in Filenames :
        LET r == load_audio(fs, filename)
        IN /\ Begin(w, [NoCall EXCEPT !.op = "load_audio", !.filename = filename], NoLoc, <<"load">>)
           /\ Finish(w, IF r.ok THEN [Returned(<<>>) EXCEPT !.data = r.buf, !.info.sample_rate = r.sr] ELSE Raised(r.err))
    /\ UNCHANGED fs

\* duration = round(samples / sample_rate, 2), in hundredths of a second
AudioInfo(filename, buf, sr) ==
    [duration |-> RoundDiv(BufLen(buf) * 100, sr), sample_rate |-> sr,
     channels |-> IF buf.shape = 1 THEN 1 ELSE Len(buf.ch), format |-> SplitextExt(filename)]

GetAudioInfo(w) ==
    /\ CanCall(w)
    /\ \E filename \in Filenames :
        LET r == load_audio(fs, filename)
        IN /\ Begin(w, [NoCall EXCEPT !.op = "get_audio_info", !.filename = filename], NoLoc, <<"load">>)
           /\ Finish(w, IF r.ok THEN [Returned(<<>>) EXCEPT !.info = AudioInfo(filename, r.buf, r.sr)] ELSE Raised(r.err))
    /\ UNCHANGED fs

(***************************************************************************)
(* apply_effect: load, dispatch and transform, save.                       *)
(***************************************************************************)
\* Lines 324-327: the call, up to and including load_audio.
ApplyEffectCall(w, filenames, effect_names, intensities) ==
    /\ pc[w] = "idle"
    /\ \E filename \in filenames, effect_name \in effect_names, intensity \in intensities :
        LET r == load_audio(fs, filename)
            c == [NoCall EXCEPT !.op = "apply_effect", !.filename = filename, !.effect_name = effect_name, !.intensity = intensity]
        IN /\ Begin(w, c, [NoLoc EXCEPT !.audio_data = r.buf, !.sample_rate = r.sr], <<"load">>)
           /\ IF r.ok THEN Goto(w, "ae_transform") ELSE Finish(w, Raised(r.err))
    /\ UNCHANGED fs

\* A call of apply_effect by a caller that has calls left.
ApplyEffectBeginOf(w, filenames, effect_names, intensities) ==
    CanCall(w) /\ ApplyEffectCall(w, filenames, effect_names, intensities)

ApplyEffectBegin(w) == ApplyEffectBeginOf(w, EffectFilenames, EffectNames, Intensities)

\* Lines 329-382: the parameters from the intensity and the transform's run.
ApplyEffectTransform(w) ==
    /\ pc[w] = "ae_transform"
    /\ \E noise \in NoiseGains :
        LET p == Dispatch(call[w].effect_name, call[w].intensity)
            r == RunTransform(p, loc[w].audio_data, loc[w].sample_rate, noise)
        IN /\ loc' = [loc EXCEPT ![w].params = p, ![w].processed = r.buf]
           /\ log' = [log EXCEPT ![w] = IF p = NoParams THEN @ ELSE Append(@, "transform")]
           /\ IF r.ok THEN Goto(w, "ae_save") ELSE Finish(w, Raised(r.err))
    /\ UNCHANGED <<fs, call, written>>

\* Lines 384-392: the output name and save_audio.
ApplyEffectSave(w) ==
    /\ pc[w] = "ae_save"
    /\ \E o \in WriteOutcomes :
        LET output_filename == EffectOutputName(call[w].filename, call[w].effect_name, call[w].intensity)
            s == save_audio(fs, loc[w].processed, loc[w].sample_rate, output_filename, o)
        IN /\ fs' = s.files
           /\ written' = [written EXCEPT ![w] = @ \cup s.touched]
           /\ log' = [log EXCEPT ![w] = Append(@, "save")]
           /\ loc' = [loc EXCEPT ![w].target = output_filename]
           /\ Finish(w, IF s.ok THEN Returned(<<output_filename>>) ELSE Raised("WriteError"))
    /\ UNCHANGED call

(***************************************************************************)
(* split_vocals_instruments: load, separate, save the two stems.           *)
(***************************************************************************)
SplitCall(w, filenames) ==
    /\ pc[w] = "idle"
    /\ \E filename \in filenames :
        LET r == load_audio(fs, filename)
        IN /\ Begin(w, [NoCall EXCEPT !.op = "split_vocals_instruments", !.filename = filename],
                    [NoLoc EXCEPT !.audio_data = r.buf, !.sample_rate = r.sr], <<"load">>)
           /\ IF r.ok THEN Goto(w, "sp_separate") ELSE Finish(w, Raised(r.err))
    /\ UNCHANGED fs

SplitBeginOf(w, filenames) == CanCall(w) /\ SplitCall(w, filenames)

SplitBegin(w) == SplitBeginOf(w, Filenames)

SplitSeparate(w) ==
    /\ pc[w] = "sp_separate"
    /\ LET r == Separate(loc[w].audio_data, loc[w].sample_rate)
           band == [fn |-> "mask", vocal_freq_start |-> vocal_freq_start(loc[w].sample_rate),
                    vocal_freq_end |-> vocal_freq_end(loc[w].sample_rate)]
       IN /\ loc' = [loc EXCEPT ![w].processed = r.vocals, ![w].instruments = r.instruments, ![w].params = band]
          /\ log' = [log EXCEPT ![w] = Append(@, "transform")]
          /\ IF r.ok THEN Goto(w, "sp_save_vocals") ELSE Finish(w, Raised(r.err))
    /\ UNCHANGED <<fs, call, written>>

\* f"{base_name}_vocals.wav"
vocals_filename(filename) == SplitextRoot(filename) \o <<"_", "vocals", ".", "wav">>

\* f"{base_name}_instruments.wav"
instruments_filename(filename) == SplitextRoot(filename) \o <<"_", "instruments", ".", "wav">>

\* Line 129
SplitSaveVocals(w) ==
    /\ pc[w] = "sp_save_vocals"
    /\ \E o \in WriteOutcomes :
        LET s == save_audio(fs, loc[w].processed, loc[w].sample_rate, vocals_filename(call[w].filename), o)
        IN /\ fs' = s.files
           /\ written' = [written EXCEPT ![w] = @ \cup s.touched]
           /\ log' = [log EXCEPT ![w] = Append(@, "save")]
           /\ IF s.ok THEN Goto(w, "sp_save_instruments") ELSE Finish(w, Raised("WriteError"))
    /\ UNCHANGED <<call, loc>>

\* Lines 130-139
SplitSaveInstruments(w) ==
    /\ pc[w] = "sp_save_instruments"
    /\ \E o \in WriteOutcomes :
        LET s == save_audio(fs, loc[w].instruments, loc[w].sample_rate, instruments_filename(call[w].filename), o)
        IN /\ fs' = s.files
           /\ written' = [written EXCEPT ![w] = @ \cup s.touched]
           /\ log' = [log EXCEPT ![w] = Append(@, "save")]
           /\ Finish(w, IF s.ok
                        THEN [Returned(<<vocals_filename(call[w].filename), instruments_filename(call[w].filename)>>)
                                 EXCEPT !.info.sample_rate = loc[w].sample_rate]
                        ELSE Raised("WriteError"))
    /\ UNCHANGED <<call, loc>>

(***************************************************************************)
(* convert_to_mp3: read the stored file, export it.                        *)
(***************************************************************************)
\* The names a caller hands to convert_to_mp3: those of the stored outputs,
\* and one that names nothing.
WavNames(files) == {rp[Len(rp)] : rp \in FilesIn(files, ProcessedDir)} \cup {<<"nothing", ".", "wav">>}

\* Mutant: a call without a quality runs at the medium tier.
QualityArgDefaultMedium(q) == IF q = "omitted" THEN "medium" ELSE q

\* The quality the call runs with: the default when the argument is omitted.
QualityArg(q) == IF q = "omitted" THEN "high" ELSE q

ConvertCall(w, wav_filenames, qualities) ==
    /\ pc[w] = "idle"
    /\ \E wav_filename \in wav_filenames, q \in qualities :
        LET r == ReadWav(fs, wav_filename)
        IN /\ Begin(w, [NoCall EXCEPT !.op = "convert_to_mp3", !.filename = wav_filename, !.quality = q],
                    [NoLoc EXCEPT !.audio = r.file], <<"load">>)
           /\ IF r.ok THEN Goto(w, "mp3_export") ELSE Finish(w, Raised(r.err))
    /\ UNCHANGED fs

ConvertBegin(w) == CanCall(w) /\ ConvertCall(w, WavNames(fs), Qualities)

ConvertExport(w) ==
    /\ pc[w] = "mp3_export"
    /\ \E o \in WriteOutcomes :
        LET s == ExportMp3(fs, loc[w].audio, call[w].filename, QualityArg(call[w].quality), o)
        IN /\ fs' = s.files
           /\ written' = [written EXCEPT ![w] = @ \cup s.touched]
           /\ log' = [log EXCEPT ![w] = Append(@, "save")]
           /\ Finish(w, IF s.ok THEN Returned(<<Mp3Name(call[w].filename)>>) ELSE Raised("EncodeError"))
    /\ UNCHANGED <<call, loc>>

Next ==
    \/ \E w \in Callers : LoadAudio(w) /\ UNCHANGED appvars
    \/ \E w \in Callers : GetAudioInfo(w) /\ UNCHANGED appvars
    \/ \E w \in Callers : ApplyEffectBegin(w) /\ UNCHANGED appvars
    \/ \E w \in Callers : ApplyEffectTransform(w) /\ UNCHANGED appvars
    \/ \E w \in Callers : ApplyEffectSave(w) /\ UNCHANGED appvars
    \/ \E w \in Callers : SplitBegin(w) /\ UNCHANGED appvars
    \/ \E w \in Callers : SplitSeparate(w) /\ UNCHANGED appvars
    \/ \E w \in Callers : SplitSaveVocals(w) /\ UNCHANGED appvars
    \/ \E w \in Callers : SplitSaveInstruments(w) /\ UNCHANGED appvars
    \/ \E w \in Callers : ConvertBegin(w) /\ UNCHANGED appvars
    \/ \E w \in Callers : ConvertExport(w) /\ UNCHANGED appvars

Spec == Init /\ [][Next]_vars

(***************************************************************************)
(* Two callers running engine calls at the same time, as the worker        *)
(* threads of the task dispatcher do: every step of one call may fall      *)
(* between two steps of the other.                                         *)
(***************************************************************************)
ConcFilenames == { <<"a", ".", "wav">>, <<"a", ".", "mp3">>, <<"quiet", ".", "wav">> }

ConcEffectNames == {"compressor"}

ConcIntensities == {500}

InitConc == InitOf({1, 2})

ConcApplyEffectBegin(w) == ApplyEffectBeginOf(w, ConcFilenames, ConcEffectNames, ConcIntensities)

ConcSplitBegin(w) == SplitBeginOf(w, ConcFilenames)

NextConc ==
    \/ \E w \in Callers : ConcApplyEffectBegin(w) /\ UNCHANGED appvars
    \/ \E w \in Callers : ApplyEffectTransform(w) /\ UNCHANGED appvars
    \/ \E w \in Callers : ApplyEffectSave(w) /\ UNCHANGED appvars
    \/ \E w \in Callers : ConcSplitBegin(w) /\ UNCHANGED appvars
    \/ \E w \in Callers : SplitSeparate(w) /\ UNCHANGED appvars
    \/ \E w \in Callers : SplitSaveVocals(w) /\ UNCHANGED appvars
    \/ \E w \in Callers : SplitSaveInstruments(w) /\ UNCHANGED appvars

SpecConc == InitConc /\ [][NextConc]_vars

(***************************************************************************)
(* Direct calls of the sample I/O and of the effect library: one caller    *)
(* that saves a buffer and loads it back, or runs one transform on a       *)
(* buffer with parameters of its choice.  The sample rates are low so that *)
(* the delays of the echo and the period of the chorus oscillator fall     *)
(* inside buffers of a few samples.                                        *)
(***************************************************************************)
\* A mono buffer whose samples tell their index: x[n] = n * 0.05.
Ramp == [shape |-> 1, ch |-> << [n \in 1..16 |-> 500 * n] >>, hz |-> 440]

\* Mono, stereo, one with samples beyond full scale, and the ramp.
FxBuffers ==
    { [shape |-> 1, ch |-> << <<3000, -9000, 6000, 1000>> >>, hz |-> 440],
      [shape |-> 2, ch |-> << <<3000, -9000, 6000>>, <<-4000, 7000, -1000>> >>, hz |-> 1000],
      [shape |-> 1, ch |-> << <<15000, -2000>> >>, hz |-> 5000],
      Ramp }

FxSampleRates == {20, 40}

\* -0.1 s, 0.1 s, 0.45 s, 2 s
FxDelays == {-1000, 1000, 4500, 20000}

FxWetLevels == {3000, Scale}

\* 0.002 (the default), 0.05, 0.1
FxDepths == {chorus_depth, 500, 1000}

FxRates == {25000}

FxThresholds == {3000, 5500, 8000}

\* The names a buffer is saved under and loaded back from.
IoNames == { <<"x", ".", "wav">>, <<"a", ".", "wav">>, <<"/", "app", "/", "uploads", "/", "x", ".", "wav">> }

\* A call of one transform of the library: its input, its keyword arguments
\* and its output are kept in loc, its result in res.
FxCall(w, op, audio_data, sample_rate, params, r) ==
    /\ CanCall(w)
    /\ Begin(w, [NoCall EXCEPT !.op = op],
             [NoLoc EXCEPT !.audio_data = audio_data, !.sample_rate = sample_rate, !.params = params, !.processed = r.buf],
             <<"transform">>)
    /\ Finish(w, IF r.ok THEN [Returned(<<>>) EXCEPT !.data = r.buf] ELSE Raised(r.err))
    /\ UNCHANGED fs

FxEcho(w) ==
    \E b \in FxBuffers, sr \in FxSampleRates, delay \in FxDelays, wet \in FxWetLevels :
        FxCall(w, "apply_echo", b, sr, [fn |-> "apply_echo", delay |-> delay, decay |-> echo_decay, wet_level |-> wet],
               apply_echo(b, sr, delay, echo_decay, wet))

FxChorus(w) ==
    \E b \in FxBuffers, sr \in FxSampleRates, rate \in FxRates, depth \in FxDepths, wet \in FxWetLevels :
        FxCall(w, "apply_chorus", b, sr, [fn |-> "apply_chorus", rate |-> rate, depth |-> depth, wet_level |-> wet],
               apply_chorus(b, sr, rate, depth, wet))

FxCompressor(w) ==
    \E b \in FxBuffers, sr \in FxSampleRates, threshold \in FxThresholds, wet \in FxWetLevels :
        FxCall(w, "apply_compressor", b, sr,
               [fn |-> "apply_compressor", threshold |-> threshold, ratio |-> compressor_ratio, wet_level |-> wet],
               apply_compressor(b, threshold, compressor_ratio, wet))

\* save_audio(audio_data, sample_rate, output_filename), to be followed by
\* load_audio(output_filename).
RoundTripSave(w) ==
    /\ CanCall(w)
    /\ \E b \in FxBuffers, sr \in FxSampleRates, name \in IoNames, o \in WriteOutcomes :
        LET s == save_audio(fs, b, sr, name, o)
        IN /\ fs' = s.files
           /\ call' = [call EXCEPT ![w] = [NoCall EXCEPT !.op = "save_audio", !.filename = name]]
           /\ loc' = [loc EXCEPT ![w] = [NoLoc EXCEPT !.audio_data = b, !.sample_rate = sr, !.target = name]]
           /\ written' = [written EXCEPT ![w] = s.touched]
           /\ log' = [log EXCEPT ![w] = <<"save">>]
           /\ IF s.ok THEN Goto(w, "rt_load") ELSE Finish(w, Raised("WriteError"))

\* load_audio of the name the buffer was saved under.
RoundTripLoad(w) ==
    /\ pc[w] = "rt_load"
    /\ LET r == load_audio(fs, call[w].filename)
       IN /\ loc' = [loc EXCEPT ![w].processed = r.buf]
          /\ log' = [log EXCEPT ![w] = Append(@, "load")]
          /\ Finish(w, IF r.ok THEN [Returned(<<>>) EXCEPT !.data = r.buf, !.info.sample_rate = r.sr] ELSE Raised(r.err))
    /\ UNCHANGED <<fs, call, written>>

NextFx ==
    \/ \E w \in Callers : FxEcho(w) /\ UNCHANGED appvars
    \/ \E w \in Callers : FxChorus(w) /\ UNCHANGED appvars
    \/ \E w \in Callers : FxCompressor(w) /\ UNCHANGED appvars
    \/ \E w \in Callers : RoundTripSave(w) /\ UNCHANGED appvars
    \/ \E w \in Callers : RoundTripLoad(w) /\ UNCHANGED appvars

SpecFx == Init /\ [][NextFx]_vars

(***************************************************************************)
(* The task dispatcher (src/app.py): the routes /split and /apply_fx       *)
(* register a task and start its worker thread, the worker makes the       *)
(* engine calls and records progress in the task store, /task/<id> reads   *)
(* an entry and /status evicts old entries.  Every statement of a worker   *)
(* that touches the store is a step of its own; a request handler reads or *)
(* updates the store in one step.                                          *)
(***************************************************************************)
\* The ids the tasks get (uuid4: every id is given out at most once).
TaskIds == {1}

\* Seconds between two readings of the clock.
TickSeconds == 30 * 60

\* The last reading of the clock.
MaxClock == 3

\* Entries older than this many seconds are evicted.
max_task_age == 3600

\* Mutant: the endpoint accepts a name the engine has no branch for.
supported_effects_and_flanger == {"reverb", "echo", "distortion", "chorus", "delay", "compressor", "equalizer", "flanger"}

\* Line 227
supported_effects == {"reverb", "echo", "distortion", "chorus", "delay", "compressor", "equalizer"}

\* The inputs of the requests.
TaskFilenames == { <<"a", ".", "wav">>, <<"bad", ".", "wav">>, <<"missing", ".", "wav">> }

TaskEffectNames == {"Reverb", "ECHO", "chorus", "distortion", "compressor", "EqualiZer", "Delay", "flanger", "FLANGER"}

TaskIntensities == {0, 500}

InitTasks == InitOf(TaskIds)

\* Lines 152-163 and 243-256: the entry is stored and the thread started.
Register(t, type, filename, effect_name, intensity) ==
    /\ tasks' = [tasks EXCEPT ![t] = [NoTask EXCEPT !.present = TRUE, !.status = "queued", !.progress = 0,
                                                   !.filename = filename, !.type = type, !.effect = effect_name,
                                                   !.intensity = intensity, !.created_at = clock]]
    /\ tpc' = [tpc EXCEPT ![t] = [NoThread EXCEPT !.at = "set_processing", !.type = type, !.filename = filename,
                                                 !.effect_name = effect_name, !.intensity = intensity]]
    /\ UNCHANGED <<enginevars, clock, resp>>

\* POST /split.  A request that is refused (404) changes nothing.
split_audio(t) ==
    /\ tpc[t].at = "none"
    /\ \E filename \in TaskFilenames :
        /\ Exists(fs, PathJoin(upload_folder, filename))
        /\ Register(t, "split", filename, "", 0)

\* POST /apply_fx.  A request that is refused (400, 404) changes nothing.
apply_effects(t) ==
    /\ tpc[t].at = "none"
    /\ \E filename \in TaskFilenames, effect_name \in TaskEffectNames, intensity \in TaskIntensities :
        /\ Lower(effect_name) \in supported_effects
        /\ Exists(fs, PathJoin(upload_folder, filename))
        /\ Register(t, "effect", filename, effect_name, intensity)

\* processing_tasks[task_id][key] = value at position at of the worker: the
\* store raises KeyError when the entry is gone; inside the try block the
\* handler takes over, inside the handler the thread dies.
Store(t, at, entry, next) ==
    /\ tpc[t].at = at
    /\ IF tasks[t].present
       THEN /\ tasks' = [tasks EXCEPT ![t] = entry]
            /\ tpc' = [tpc EXCEPT ![t].at = next]
       ELSE /\ tasks' = tasks
            /\ tpc' = [tpc EXCEPT ![t].at = IF at \in {"except_status", "except_error"} THEN "dead" ELSE "except_status",
                                  ![t].err = IF at \in {"except_status", "except_error"} THEN @ ELSE "KeyError"]
    /\ UNCHANGED <<enginevars, clock, resp>>

\* Lines 105, 180
WorkerSetProcessing(t) == Store(t, "set_processing", [tasks[t] EXCEPT !.status = "processing"], "set_progress_start")

\* Lines 106 and 181, 111 and 186, 117 and 191
WorkerSetProgress(t) ==
    \/ Store(t, "set_progress_start", [tasks[t] EXCEPT !.progress = IF tpc[t].type = "split" THEN 10 ELSE 20], "call_transform")
    \/ Store(t, "set_progress_80", [tasks[t] EXCEPT !.progress = 80], "call_mp3_1")
    \/ Store(t, "set_progress_100", [tasks[t] EXCEPT !.progress = 100], "set_completed")

\* Lines 109, 184: the call of the engine's transform, up to its load_audio.
WorkerCallTransform(t) ==
    /\ tpc[t].at = "call_transform"
    /\ IF tpc[t].type = "split"
       THEN SplitCall(t, {tpc[t].filename})
       ELSE ApplyEffectCall(t, {tpc[t].filename}, {tpc[t].effect_name}, {tpc[t].intensity})
    /\ tpc' = [tpc EXCEPT ![t].at = "in_transform"]
    /\ UNCHANGED <<tasks, clock, resp>>

\* Lines 114-115, 189: convert_to_mp3 of a name the transform returned.
WorkerCallMp3(t) ==
    /\ tpc[t].at \in {"call_mp3_1", "call_mp3_2"}
    /\ ConvertCall(t, {tpc[t].wavs[IF tpc[t].at = "call_mp3_1" THEN 1 ELSE 2]}, {"omitted"})
    /\ tpc' = [tpc EXCEPT ![t].at = IF tpc[t].at = "call_mp3_1" THEN "in_mp3_1" ELSE "in_mp3_2"]
    /\ UNCHANGED <<tasks, clock, resp>>

\* Mutant: an exception of convert_to_mp3 is swallowed.
AfterCallIgnoringRaise(type, at, status) ==
    CASE at = "in_transform" -> IF status = "raised" THEN "except_status" ELSE "set_progress_80"
      [] at = "in_mp3_1" -> IF type = "split" THEN "call_mp3_2" ELSE "set_progress_100"
      [] at = "in_mp3_2" -> "set_progress_100"

\* Where the worker goes on when the engine call made at position at has
\* ended with status: into the handler when it raised.
AfterCall(type, at, status) ==
    IF status = "raised" THEN "except_status"
    ELSE CASE at = "in_transform" -> "set_progress_80"
           [] at = "in_mp3_1" -> IF type = "split" THEN "call_mp3_2" ELSE "set_progress_100"
           [] at = "in_mp3_2" -> "set_progress_100"

\* The engine call of the worker has returned or raised.
WorkerReturn(t) ==
    /\ tpc[t].at \in {"in_transform", "in_mp3_1", "in_mp3_2"}
    /\ pc[t] = "idle"
    /\ tpc' = [tpc EXCEPT ![t].at = AfterCall(tpc[t].type, tpc[t].at, res[t].status),
                          ![t].wavs = IF tpc[t].at = "in_transform" THEN res[t].files ELSE @,
                          ![t].mp3s = IF tpc[t].at = "in_transform" THEN @ ELSE @ \o res[t].files,
                          ![t].err = IF res[t].status = "raised" THEN res[t].err ELSE @,
                          ![t].ended = Append(@, res[t].status)]
    /\ UNCHANGED <<enginevars, tasks, clock, resp>>

\* Mutant: the statement after 'completed' raises, and the handler runs.
WorkerSetCompletedThenRaise(t) == Store(t, "set_completed", [tasks[t] EXCEPT !.status = "completed"], "except_status")

\* Lines 118, 192
WorkerSetCompleted(t) == Store(t, "set_completed", [tasks[t] EXCEPT !.status = "completed"], "set_result")

\* Lines 119-123, 193-198
WorkerSetResult(t) == Store(t, "set_result", [tasks[t] EXCEPT !.has_result = TRUE, !.result = tpc[t].mp3s], "done")

\* Lines 128-129, 203-204: the handler.
WorkerFail(t) ==
    \/ Store(t, "except_status", [tasks[t] EXCEPT !.status = "failed"], "except_error")
    \/ Store(t, "except_error", [tasks[t] EXCEPT !.has_error = TRUE, !.error = tpc[t].err], "done")

\* GET /task/<task_id>: 404 for an unknown id, 500 when reading the entry
\* raises (task['result'] of an entry without that key), else the entry.
get_task_status(t) ==
    /\ resp' = IF ~tasks[t].present THEN [NoResp EXCEPT !.code = 404, !.task_id = t]
               ELSE IF tasks[t].status = "completed" /\ ~tasks[t].has_result THEN [NoResp EXCEPT !.code = 500, !.task_id = t]
               ELSE [code |-> 200, task_id |-> t, status |-> tasks[t].status, progress |-> tasks[t].progress,
                     has_result |-> tasks[t].status = "completed",
                     result |-> IF tasks[t].status = "completed" THEN tasks[t].result ELSE <<>>,
                     error |-> IF tasks[t].status # "failed" THEN ""
                               ELSE IF tasks[t].has_error THEN tasks[t].error ELSE "Unknown error"]
    /\ UNCHANGED <<enginevars, tasks, tpc, clock>>

\* GET /status: the entries created more than an hour ago are deleted.
status ==
    /\ tasks' = [t \in DOMAIN tasks |->
                    IF tasks[t].present /\ (clock - tasks[t].created_at) * TickSeconds > max_task_age
                    THEN NoTask ELSE tasks[t]]
    /\ UNCHANGED <<enginevars, tpc, clock, resp>>

\* Time passes.
Tick ==
    /\ clock < MaxClock
    /\ clock' = clock + 1
    /\ UNCHANGED <<enginevars, tasks, tpc, resp>>

NextTasks ==
    \/ \E t \in TaskIds : split_audio(t)
    \/ \E t \in TaskIds : apply_effects(t)
    \/ \E t \in TaskIds : WorkerSetProcessing(t)
    \/ \E t \in TaskIds : WorkerSetProgress(t)
    \/ \E t \in TaskIds : WorkerCallTransform(t)
    \/ \E t \in TaskIds : WorkerCallMp3(t)
    \/ \E t \in TaskIds : WorkerReturn(t)
    \/ \E t \in TaskIds : WorkerSetCompleted(t)
    \/ \E t \in TaskIds : WorkerSetResult(t)
    \/ \E t \in TaskIds : WorkerFail(t)
    \/ \E t \in TaskIds : ApplyEffectTransform(t) /\ UNCHANGED appvars
    \/ \E t \in TaskIds : ApplyEffectSave(t) /\ UNCHANGED appvars
    \/ \E t \in TaskIds : SplitSeparate(t) /\ UNCHANGED appvars
    \/ \E t \in TaskIds : SplitSaveVocals(t) /\ UNCHANGED appvars
    \/ \E t \in TaskIds : SplitSaveInstruments(t) /\ UNCHANGED appvars
    \/ \E t \in TaskIds : ConvertExport(t) /\ UNCHANGED appvars
    \/ \E t \in TaskIds : get_task_status(t)
    \/ status
    \/ Tick

SpecTasks == InitTasks /\ [][NextTasks]_vars

(***************************************************************************)
(* The claims.                                                             *)
(***************************************************************************)
\* The effect names the specification lists.
SupportedEffects == {"reverb", "echo", "chorus", "distortion", "compressor", "equalizer", "delay"}

\* Caller w's last call was op and has ended.
Ended(w, op) == call[w].op = op /\ res[w].status # "none"

\* The call of caller w decoded its source file.
Loaded(w) == loc[w].sample_rate # 0

\* The call of caller w has run step s.
Ran(w, s) == s \in Range(log[w])

\* C1 as stated: apply_effect with an effect name outside the seven supported
\* ones (in any letter case) fails with the unknown-effect error and writes no
\* file.
C1_UnknownEffectFails ==
    \A w \in Callers :
        (Ended(w, "apply_effect") /\ Lower(call[w].effect_name) \notin SupportedEffects)
            => /\ res[w].status = "raised"
               /\ res[w].err = "ValueError: Unknown effect"
               /\ written[w] = {}

\* C1 amended: apply_effect with an unsupported effect name always fails and
\* writes no file; the error is the unknown-effect error when the source file
\* was loaded, and the error of load_audio (missing or undecodable file)
\* otherwise, because the file is loaded before the name is looked at.
C1_UnknownEffectFailsAfterLoad ==
    \A w \in Callers :
        (Ended(w, "apply_effect") /\ Lower(call[w].effect_name) \notin SupportedEffects)
            => /\ res[w].status = "raised"
               /\ IF Loaded(w) THEN res[w].err = "ValueError: Unknown effect"
                               ELSE res[w].err \in {"FileNotFoundError", "DecodeError"}
               /\ written[w] = {}
               /\ ~Ran(w, "transform") /\ ~Ran(w, "save")

C1_Witness ==
    \E w \in Callers :
        /\ Ended(w, "apply_effect") /\ call[w].effect_name = "flanger" /\ Loaded(w)
        /\ res[w].err = "ValueError: Unknown effect"

\* C2 as stated: a failed split_vocals_instruments or apply_effect has written
\* none of its output files.
C2_NoPartialResult ==
    \A w \in Callers :
        ((Ended(w, "split_vocals_instruments") \/ Ended(w, "apply_effect")) /\ res[w].status = "raised")
            => written[w] = {}

\* C3 as stated: apply_effect with an intensity below 0 or above 100 fails
\* with InvalidParameter, runs no transform and writes no file.
C3_IntensityValidated ==
    \A w \in Callers :
        (/\ call[w].op = "apply_effect"
         /\ Lower(call[w].effect_name) \in SupportedEffects
         /\ (call[w].intensity < 0 \/ call[w].intensity > 100 * IntensityUnit)
         /\ Loaded(w))
            => /\ ~Ran(w, "transform") /\ ~Ran(w, "save")
               /\ res[w].status # "none" => (res[w].status = "raised" /\ res[w].err = "InvalidParameter")

\* C4 as stated: a transform run with wetLevel = 0 succeeds and returns its
\* input; so apply_effect at intensity 0 passes the unchanged input on to be
\* saved, for each of the seven effect names.
C4_ZeroWetIsIdentity ==
    \A w \in Callers :
        (call[w].op = "apply_effect" /\ Ran(w, "transform") /\ loc[w].params.wet_level = 0)
            => loc[w].processed = loc[w].audio_data

\* The dispatch table of the specification, for an intensity of t tenths of a
\* percent: every value in units of 1/10000.
TableOfSpec(name, t) ==
    CASE name = "reverb" -> [fn |-> "apply_reverb", room_size |-> 10 * t, damping |-> 5000, wet_level |-> 5 * t]
      [] name = "echo" -> [fn |-> "apply_echo", delay |-> 2000 + 5 * t, decay |-> 5000, wet_level |-> 6 * t]
      [] name = "chorus" -> [fn |-> "apply_chorus", rate |-> 10000 + 20 * t, depth |-> 20, wet_level |-> 7 * t]
      [] name = "distortion" -> [fn |-> "apply_distortion", gain |-> 10000 + 40 * t, wet_level |-> 10 * t]
      [] name = "compressor" -> [fn |-> "apply_compressor", threshold |-> 8000 - 5 * t, ratio |-> 40000, wet_level |-> 10 * t]
      [] name = "equalizer" -> [fn |-> "apply_equalizer", low_gain |-> 5000 + 10 * t, mid_gain |-> 7500 + 5 * t,
                                high_gain |-> 7000 + 6 * t, wet_level |-> 10 * t]
      [] name = "delay" -> [fn |-> "apply_echo", delay |-> 5000 + 10 * t, decay |-> 3000 + 4 * t, wet_level |-> 5 * t]

\* C5: for an intensity in 0..100, apply_effect calls the transform of the
\* dispatch table with exactly the table's parameters, every other parameter
\* at the transform's default.
C5_DispatchTable ==
    \A w \in Callers :
        (/\ call[w].op = "apply_effect" /\ Ran(w, "transform")
         /\ call[w].intensity >= 0 /\ call[w].intensity <= 100 * IntensityUnit)
            => loc[w].params = TableOfSpec(Lower(call[w].effect_name), call[w].intensity)

\* Echo at intensity 50 was called with delay 0.45 s, wet level 0.3 and the
\* default decay.
C5_Witness ==
    \E w \in Callers :
        /\ call[w].op = "apply_effect" /\ call[w].effect_name = "echo" /\ call[w].intensity = 500
        /\ Ran(w, "transform") /\ loc[w].params.delay = 4500 /\ loc[w].params.wet_level = 3000
        /\ loc[w].params.decay = 5000

\* The file name without its extension, for a name that ends in ".ext".
StemOf(filename) == SubSeq(filename, 1, Len(filename) - 2)

\* C6 as stated: the name apply_effect returns is {stem}_{effectName}_{n}
\* with n the intensity rounded to the nearest integer.
C6_NameRounded ==
    \A w \in Callers :
        (/\ Ended(w, "apply_effect") /\ res[w].status = "returned"
         /\ call[w].intensity >= 0 /\ call[w].intensity <= 100 * IntensityUnit)
            => res[w].files = << StemOf(call[w].filename)
                                   \o <<"_", call[w].effect_name, "_", ToString((call[w].intensity + 5) \div 10), ".", "wav">> >>

\* C6 amended: the name apply_effect returns, and stores its output under in
\* the processed directory, is {stem}_{effectName}_{n}.wav with n the
\* intensity truncated to an integer (49.6 gives 49).
C6_NameTruncated ==
    \A w \in Callers :
        (/\ Ended(w, "apply_effect") /\ res[w].status = "returned"
         /\ call[w].intensity >= 0 /\ call[w].intensity <= 100 * IntensityUnit)
            => LET name == StemOf(call[w].filename)
                              \o <<"_", call[w].effect_name, "_", ToString(call[w].intensity \div 10), ".", "wav">>
               IN /\ res[w].files = <<name>>
                  /\ written[w] = {Append(ProcessedDir, name)}

C6_Witness ==
    \E w \in Callers :
        /\ Ended(w, "apply_effect") /\ res[w].status = "returned" /\ call[w].intensity = 496
        /\ call[w].filename = <<"a", ".", "mp3">>
        /\ res[w].files = << <<"a", "_", call[w].effect_name, "_", "49", ".", "wav">> >>

\* The samples of a buffer are all zero.
Silent(buf) == \A c \in 1..Len(buf.ch) : \A i \in 1..Len(buf.ch[c]) : buf.ch[c][i] = 0

\* C7 as stated: the stems of a silent source come out of the normalization
\* unchanged (all zeros, no 0/0), and the separation completes.
C7_SilentStemUnchanged ==
    \A w \in Callers :
        (call[w].op = "split_vocals_instruments" /\ Ran(w, "transform") /\ Silent(loc[w].audio_data))
            => /\ loc[w].processed.shape = 1 /\ Silent(loc[w].processed)
               /\ loc[w].instruments.shape = 1 /\ Silent(loc[w].instruments)

\* The paths the call of caller w has written, or writes in its next step.
Targets(w) ==
    written[w] \cup
    (CASE pc[w] = "ae_save" ->
            {Resolve(PathJoin(processed_folder, EffectOutputName(call[w].filename, call[w].effect_name, call[w].intensity)))}
       [] pc[w] = "sp_save_vocals" -> {Resolve(PathJoin(processed_folder, vocals_filename(call[w].filename)))}
       [] pc[w] = "sp_save_instruments" -> {Resolve(PathJoin(processed_folder, instruments_filename(call[w].filename)))}
       [] OTHER -> {})

\* C8 as stated: two calls of the same operation (same effect and intensity)
\* that run at the same time on different source file names never write to
\* the same path.
C8_DistinctSourcesDistinctOutputs ==
    \A w1, w2 \in Callers :
        (/\ w1 # w2 /\ pc[w1] # "idle" /\ pc[w2] # "idle"
         /\ call[w1].op = call[w2].op
         /\ call[w1].effect_name = call[w2].effect_name /\ call[w1].intensity = call[w2].intensity
         /\ call[w1].filename # call[w2].filename)
            => Targets(w1) \cap Targets(w2) = {}

\* C9: load_audio, get_audio_info, apply_effect and split_vocals_instruments
\* on a source file that does not exist fail with the not-found error before
\* any other step, and write no file.
C9_MissingSourceNotFound ==
    \A w \in Callers :
        (/\ res[w].status # "none"
         /\ call[w].op \in {"load_audio", "get_audio_info", "apply_effect", "split_vocals_instruments"}
         /\ Resolve(PathJoin(upload_folder, call[w].filename)) \notin DOMAIN fs \cup Dirs)
            => /\ res[w].status = "raised" /\ res[w].err = "FileNotFoundError"
               /\ written[w] = {} /\ log[w] = <<"load">>

\* apply_effect on a missing file, called with an unsupported effect name.
C9_Witness ==
    \E w \in Callers :
        /\ Ended(w, "apply_effect") /\ call[w].filename = <<"missing", ".", "wav">>
        /\ call[w].effect_name = "flanger" /\ res[w].err = "FileNotFoundError"

\* C10 as stated: every file an engine call writes lies in the processed
\* directory, and the upload directory holds exactly the files it held at the
\* start, unchanged.
C10_WritesOnlyProcessed ==
    /\ \A w \in Callers : \A rp \in written[w] : Parent(rp) = ProcessedDir
    /\ FilesIn(fs, UploadDir) = FilesIn(InitialFiles, UploadDir)
    /\ \A rp \in FilesIn(InitialFiles, UploadDir) : fs[rp] = InitialFiles[rp]

\* C11 as stated: when save_audio has stored buffer b under name p, load_audio
\* of p succeeds and returns b's samples, channel count and sample rate.
C11_RoundTrip ==
    \A w \in Callers :
        (call[w].op = "save_audio" /\ Ran(w, "load"))
            => /\ res[w].status = "returned"
               /\ res[w].data.ch = loc[w].audio_data.ch
               /\ res[w].info.sample_rate = loc[w].sample_rate

\* The largest magnitude among the samples of a mono buffer (0/0 counts as
\* beyond every bound).
Peak(buf) == SeqMax([i \in 1..BufLen(buf) |-> Abs(buf.ch[1][i])])

\* C12 as stated: for a source that is not silent, mono or multi-channel, the
\* separation yields two mono buffers of equal length whose peak magnitudes
\* are at most 0.8.
C12_SeparationShape ==
    \A w \in Callers :
        (call[w].op = "split_vocals_instruments" /\ Ran(w, "transform") /\ ~Silent(loc[w].audio_data))
            => /\ loc[w].processed.shape = 1 /\ Len(loc[w].processed.ch) = 1
               /\ loc[w].instruments.shape = 1 /\ Len(loc[w].instruments.ch) = 1
               /\ BufLen(loc[w].processed) = BufLen(loc[w].instruments)
               /\ Peak(loc[w].processed) <= 8000
               /\ Peak(loc[w].instruments) <= 8000

\* The bitrate table of the specification, in kbps; a call that names no tier
\* runs at the high tier.
TierOfSpec(quality) ==
    CASE quality = "low" -> 128
      [] quality = "medium" -> 192
      [] quality = "high" -> 320
      [] quality = "omitted" -> 320

\* C13: convert_to_mp3 encodes at 128, 192 or 320 kbps for the tiers low,
\* medium and high, at 320 kbps when no tier is given, and returns (and writes
\* in the processed directory) the input name with its extension replaced by
\* mp3.
C13_QualityTable ==
    \A w \in Callers :
        (/\ Ended(w, "convert_to_mp3") /\ res[w].status = "returned"
         /\ call[w].quality \in {"low", "medium", "high", "omitted"})
            => LET name == StemOf(call[w].filename) \o <<".", "mp3">>
                   rp == Append(ProcessedDir, name)
               IN /\ res[w].files = <<name>>
                  /\ written[w] = {rp}
                  /\ rp \in DOMAIN fs /\ fs[rp].bitrate = TierOfSpec(call[w].quality)

\* A stored effect output was converted without a tier and encoded at 320 kbps.
C13_Witness ==
    \E w \in Callers :
        /\ Ended(w, "convert_to_mp3") /\ res[w].status = "returned" /\ call[w].quality = "omitted"
        /\ call[w].filename = <<"a", "_", "delay", "_", "49", ".", "wav">>
        /\ fs[Append(ProcessedDir, <<"a", "_", "delay", "_", "49", ".", "mp3">>)].bitrate = 320

\* The engine calls a task of the given type makes, all returned.
AllReturned(type) == IF type = "split" THEN <<"returned", "returned", "returned">> ELSE <<"returned", "returned">>

C19_CompletedHasResult ==
    /\ \A t \in TaskIds : (tasks[t].present /\ tasks[t].status = "completed") => tasks[t].has_result
    /\ resp.code # 500
    /\ resp.status = "completed" => (resp.code = 200 /\ resp.has_result)

\* The worker of task t has been started and has not ended.
Running(t) == tpc[t].at \notin {"none", "done", "dead"}

\* C20 as stated, for the runs that have come to an end: no entry is evicted
\* while its worker is still running, and a worker never ends without its
\* task having status 'completed' or 'failed' in the task store (it ends in
\* "dead" when the store of the final status raises).
C20_TasksFinish ==
    \A t \in TaskIds :
        /\ Running(t) => tasks[t].present
        /\ tpc[t].at # "dead"
        /\ (tpc[t].at = "done" /\ tasks[t].present) => tasks[t].status \in {"completed", "failed"}

\* C15 as stated: the compressor at wetLevel 1 with ratio 4 and a threshold in
\* 0.3..0.8 replaces every sample whose magnitude exceeds the threshold by
\* threshold + (sample - threshold) / ratio, the result having the sign of the
\* sample, and leaves every other sample as it is.
C15_CompressorKeepsSign ==
    \A w \in Callers :
        (/\ call[w].op = "apply_compressor" /\ res[w].status = "returned"
         /\ loc[w].params.wet_level = Scale /\ loc[w].params.ratio = 4 * Scale
         /\ loc[w].params.threshold >= 3000 /\ loc[w].params.threshold <= 8000)
            => \A c \in 1..Len(loc[w].audio_data.ch) : \A i \in 1..BufLen(loc[w].audio_data) :
                  LET x == loc[w].audio_data.ch[c][i]
                      y == res[w].data.ch[c][i]
                      threshold == loc[w].params.threshold
                  IN IF Abs(x) > threshold
                     THEN /\ y = threshold + Trunc(x - threshold, 4)
                          /\ (x > 0 => y > 0) /\ (x < 0 => y < 0)
                     ELSE y = x

\* The index max(0, i - d) of the dry sample a delay of d samples points at.
DelayIdx(i, d) == IF i - d > 0 THEN i - d ELSE 0

\* C16 as stated: at wet level 1 the chorus output at every index i (from 0)
\* of every channel is the dry sample at index max(0, i - round(lfo[i])).
C16_ChorusRounded ==
    \A w \in Callers :
        (call[w].op = "apply_chorus" /\ res[w].status = "returned" /\ loc[w].params.wet_level = Scale)
            => \A c \in 1..Len(loc[w].audio_data.ch) : \A i \in 0..(BufLen(loc[w].audio_data) - 1) :
                  LET k == DelayIdx(i, LfoRound(i, loc[w].sample_rate, loc[w].params.rate, loc[w].params.depth))
                  IN /\ k < BufLen(loc[w].audio_data)
                     /\ res[w].data.ch[c][i + 1] = loc[w].audio_data.ch[c][k + 1]

\* C16 amended: at wet level 1 the chorus output at every index i of every
\* channel is the dry sample at index k = max(0, i - int(lfo[i])), with int
\* truncating toward zero, when k is inside the channel, and 0 when it is not
\* (a negative lfo[i] points past the end).
C16_ChorusTruncated ==
    \A w \in Callers :
        (call[w].op = "apply_chorus" /\ res[w].status = "returned" /\ loc[w].params.wet_level = Scale)
            => \A c \in 1..Len(loc[w].audio_data.ch) : \A i \in 0..(BufLen(loc[w].audio_data) - 1) :
                  LET lfo == Lfo(i, loc[w].sample_rate, loc[w].params.rate, loc[w].params.depth)
                      k == DelayIdx(i, IF lfo >= 0 THEN lfo \div LfoUnit ELSE -((-lfo) \div LfoUnit))
                  IN res[w].data.ch[c][i + 1] = IF k < BufLen(loc[w].audio_data) THEN loc[w].audio_data.ch[c][k + 1] ELSE 0

\* The chorus ran on the ramp with an oscillator of amplitude 4 samples and
\* period 16: at index 5 lfo is 3.7 (int 3, rounded 4) and the output is the
\* sample of index 2; at index 13 lfo is -3.7 and the output is 0, index 16
\* being past the end.
C16_Witness ==
    \E w \in Callers :
        /\ call[w].op = "apply_chorus" /\ res[w].status = "returned" /\ loc[w].params.wet_level = Scale
        /\ loc[w].audio_data = Ramp /\ loc[w].sample_rate = 40 /\ loc[w].params.depth = 1000
        /\ LfoInt(5, 40, loc[w].params.rate, 1000) = 3 /\ LfoRound(5, 40, loc[w].params.rate, 1000) = 4
        /\ res[w].data.ch[1][6] = Ramp.ch[1][3]
        /\ LfoInt(13, 40, loc[w].params.rate, 1000) = -3
        /\ res[w].data.ch[1][14] = 0

\* C17: with d = int(delay * sample_rate) >= 0, the echo at wet level 1
\* returns for every channel x a signal y of the same length with y[n] = x[n]
\* for n < d and y[n] = x[n] + decay * x[n - d] for n >= d; for d at least the
\* length it returns the input; the temporary buffer has len + d places, so
\* the copy written at d .. d + len - 1 stays inside it.
C17_EchoDelayed ==
    \A w \in Callers :
        (call[w].op = "apply_echo" /\ res[w].status # "none"
         /\ loc[w].params.wet_level = Scale /\ loc[w].params.delay >= 0)
            => LET d == (loc[w].params.delay * loc[w].sample_rate) \div Scale
                   len == BufLen(loc[w].audio_data)
               IN /\ res[w].status = "returned"
                  /\ Len(res[w].data.ch) = Len(loc[w].audio_data.ch)
                  /\ \A c \in 1..Len(loc[w].audio_data.ch) :
                        LET x == loc[w].audio_data.ch[c]
                            y == res[w].data.ch[c]
                        IN /\ Len(y) = Len(x)
                           /\ \A n \in 0..(len - 1) :
                                 y[n + 1] = IF n < d THEN x[n + 1]
                                            ELSE x[n + 1] + Trunc(x[n - d + 1] * loc[w].params.decay, Scale)
                           /\ EchoTempLen(x, d) >= d + Len(x)
                  /\ d >= len => res[w].data = loc[w].audio_data

\* The echo of the ramp at 20 Hz with a delay of 0.1 s (d = 2) and decay 0.5:
\* the first two samples are unchanged, the third is x[2] + 0.5 x[0].
C17_Witness ==
    \E w \in Callers :
        /\ call[w].op = "apply_echo" /\ res[w].status = "returned" /\ loc[w].params.wet_level = Scale
        /\ loc[w].audio_data = Ramp /\ loc[w].sample_rate = 20 /\ loc[w].params.delay = 1000
        /\ res[w].data.ch[1][1] = 500 /\ res[w].data.ch[1][2] = 1000 /\ res[w].data.ch[1][3] = 1750
        /\ Len(res[w].data.ch[1]) = 16

\* The multipliers the specification gives a bin: <<vocal, instrumental>>.
InsideBand == <<15000, 3000>>

OutsideBand == <<4000, 12000>>

\* C18 as stated: the band boundaries used by the separation are
\* round(300 * totalBins / (sampleRate / 2)) and
\* round(3000 * totalBins / (sampleRate / 2)).
C18_BandRounded ==
    \A w \in Callers :
        (call[w].op = "split_vocals_instruments" /\ Ran(w, "transform"))
            => /\ loc[w].params.vocal_freq_start = RoundDiv(300 * freq_bins * 2, loc[w].sample_rate)
               /\ loc[w].params.vocal_freq_end = RoundDiv(3000 * freq_bins * 2, loc[w].sample_rate)

\* The sample rates of the files the separation can load.
BandSampleRates == {44100, 48000}

\* At a sample rate, every bin gets exactly one pair of multipliers: the
\* vocal one from the truncated lower boundary to the truncated upper
\* boundary (both included), the instrumental one elsewhere.
BandTable(sample_rate) ==
    LET lo == (300 * freq_bins * 2) \div sample_rate
        hi == (3000 * freq_bins * 2) \div sample_rate
    IN \A i \in 0..(freq_bins - 1) :
          MaskAt(i, sample_rate) = IF lo <= i /\ i <= hi THEN InsideBand ELSE OutsideBand

BandTables == \A sample_rate \in BandSampleRates : BandTable(sample_rate)

\* C18 amended: the band boundaries are 300 * totalBins / (sampleRate / 2) and
\* 3000 * totalBins / (sampleRate / 2) truncated to integers, and every bin
\* gets exactly one pair of multipliers: vocal x1.5 and instrumental x0.3 from
\* the lower to the upper boundary (both included), vocal x0.4 and
\* instrumental x1.2 elsewhere.
C18_BandTruncated ==
    \A w \in Callers :
        (call[w].op = "split_vocals_instruments" /\ Ran(w, "transform"))
            => /\ loc[w].sample_rate \in BandSampleRates
               /\ loc[w].params.vocal_freq_start = (300 * freq_bins * 2) \div loc[w].sample_rate
               /\ loc[w].params.vocal_freq_end = (3000 * freq_bins * 2) \div loc[w].sample_rate
               /\ BandTables

\* The separation of a file sampled at 44100 Hz: 300 Hz falls at 13.9 and the
\* band starts at bin 13, which is boosted for the vocals; it ends at bin 139.
C18_Witness ==
    \E w \in Callers :
        /\ call[w].op = "split_vocals_instruments" /\ Ran(w, "transform") /\ loc[w].sample_rate = 44100
        /\ loc[w].params.vocal_freq_start = 13 /\ loc[w].params.vocal_freq_end = 139
        /\ MaskAt(13, 44100) = InsideBand /\ MaskAt(12, 44100) = OutsideBand
        /\ MaskAt(139, 44100) = InsideBand /\ MaskAt(140, 44100) = OutsideBand

\* The steps a status may take, and the steps of the progress value of a
\* task of a type.
StatusSteps == {<<"queued", "processing">>, <<"processing", "completed">>, <<"processing", "failed">>}

ProgressSteps(type) == {<<0, IF type = "split" THEN 10 ELSE 20>>, <<10, 80>>, <<20, 80>>, <<80, 100>>}

\* C21: while a task is in the store, every step that changes its status
\* takes it from 'queued' to 'processing' or from 'processing' to 'completed'
\* or 'failed', so 'completed' and 'failed' are never left; every step that
\* changes its progress raises it, from 0 to 10 (split) or 20 (effect), then
\* to 80, then to 100.
C21_StatusMovesForward ==
    [][\A t \in TaskIds :
          (tasks[t].present /\ tasks'[t].present)
              => /\ tasks'[t].status = tasks[t].status \/ <<tasks[t].status, tasks'[t].status>> \in StatusSteps
                 /\ tasks'[t].progress = tasks[t].progress
                        \/ <<tasks[t].progress, tasks'[t].progress>> \in ProgressSteps(tasks[t].type)
                 /\ tasks'[t].progress >= tasks[t].progress]_vars

\* A task completed at progress 100, still 'completed' when the clock has
\* moved on and /task/<id> is asked after its worker has ended.
C21_Witness ==
    \E t \in TaskIds :
        /\ tasks[t].present /\ tasks[t].status = "completed" /\ tasks[t].progress = 100
        /\ tpc[t].at = "done" /\ clock - tasks[t].created_at >= 1
        /\ resp.code = 200 /\ resp.status = "completed" /\ resp.progress = 100

\* The effect names the two checks are compared on: lower-case, mixed-case
\* and upper-case spellings of the seven effects, and names of no effect.
EffectNameUniverse ==
    EffectNames \cup TaskEffectNames \cup {"ECHO", "CHORUS", "Distortion", "COMPRESSOR", "Delay"}

\* Line 229 of app.py: the names /apply_fx lets through.
AcceptedNames == {n \in EffectNameUniverse : Lower(n) \in supported_effects}

\* Lines 332-382 of audio_processor.py: the names with a branch in apply_effect.
DispatchedNames == {n \in EffectNameUniverse : \A i \in Intensities \cup TaskIntensities : Dispatch(n, i) # NoParams}

UnknownEffect == "ValueError: Unknown effect"

\* C22: /apply_fx accepts exactly the names apply_effect dispatches, in any
\* letter case, and no task started by /apply_fx ends its apply_effect call,
\* catches, stores or reports the unknown-effect error.
C22_AcceptedAreDispatched ==
    /\ AcceptedNames = DispatchedNames
    /\ \A t \in TaskIds :
          tpc[t].type = "effect"
              => /\ tpc[t].effect_name \in AcceptedNames
                 /\ tpc[t].err # UnknownEffect
                 /\ tasks[t].error # UnknownEffect
                 /\ call[t].op = "apply_effect" => res[t].err # UnknownEffect
                 /\ (call[t].op = "apply_effect" /\ pc[t] = "ae_save") => loc[t].params # NoParams
    /\ resp.error # UnknownEffect

\* A task started by /apply_fx with the name 'Delay': accepted, and sent by
\* apply_effect to the echo transform; 'flanger' is not accepted.
C22_Witness ==
    \E t \in TaskIds :
        /\ tasks[t].present /\ tasks[t].type = "effect" /\ tasks[t].effect = "Delay"
        /\ call[t].op = "apply_effect" /\ Ran(t, "transform") /\ loc[t].params.fn = "apply_echo"
        /\ "Delay" \in AcceptedNames /\ "flanger" \notin AcceptedNames /\ "FLANGER" \notin DispatchedNames

====
